---- MODULE Spec2Model ----
(***************************************************************************)
(* Message targeting, dispatch and scheduling of apsara-report-backend.    *)
(*                                                                         *)
(* The model follows services/messageService.js (sendMessageById,          *)
(* startScheduler, stopScheduler), the message and group routes of         *)
(* routes/admin_v2.js and the Message / UserGroup / ActivityLog schemas.   *)
(* Every `await` of sendMessageById is one atomic step, so that two        *)
(* invocations on the same message interleave as they do on the Node.js    *)
(* event loop.                                                             *)
(***************************************************************************)
EXTENDS Integers, Sequences, FiniteSets, TLC

(***************************************************************************)
(* Bounds of the model.                                                    *)
(***************************************************************************)
MaxTime == 1            \* the clock runs over 0..MaxTime
MaxOpSends == 1         \* "send now" requests each operator connection makes
MaxGroupEdits == 1      \* requests changing a group that are served before a new one starts
MaxFaults == 1          \* external calls (store, directory, relay) that fail

(***************************************************************************)
(* Values.                                                                 *)
(***************************************************************************)
NoDate == -1            \* an unset Date field (scheduledAt, sentAt)
NoCount == -1           \* deliveryReport without recipientsCount ({})
NoId == 0               \* an unset ObjectId reference

MessageIds == {1, 2}       \* ids the Message collection hands out, in order
MissingMessageId == 3      \* an id no message ever gets
GroupIds == {1, 2}
TimerIds == {1, 2}         \* handles setInterval returns

Channels == {"email", "in-app", "sms"}
Statuses == {"draft", "scheduled", "sent", "failed"}
Terminal == {"sent", "failed"}
allowed == {"role", "isActive", "username"}

OpProcs == {"op1", "op2"}       \* requests being served by the send route
TickOrder == <<"tick1", "tick2">>
TickProcs == {TickOrder[i] : i \in DOMAIN TickOrder}    \* runs of the interval callback
Procs == OpProcs \cup TickProcs

VARIABLES
    messages,       \* Message collection: _id -> document
    userGroups,     \* UserGroup collection: _id -> document
    adminUsers,     \* AdminUser collection: sequence of documents (natural order)
    activityLog,    \* ActivityLog collection: sequence of records
    transport,      \* calls made to delivery.sendEmail, in order
    now,            \* wall clock
    schedulerTimer, \* module variable schedulerTimer (NoId = null)
    intervals,      \* interval timers the runtime currently holds
    sends,          \* one activation record of sendMessageById per process
    ticks,          \* one activation record of the interval callback per tick process
    opSends,        \* send requests each operator connection made so far
    requests,       \* one activation record of the group routes per operator process
    faults          \* failed external calls so far

vars == <<messages, userGroups, adminUsers, activityLog, transport, now,
          schedulerTimer, intervals, sends, ticks, opSends, requests, faults>>

store == <<messages, userGroups, adminUsers>>
timer == <<schedulerTimer, intervals>>

(***************************************************************************)
(* Pure helpers.                                                           *)
(***************************************************************************)
RECURSIVE DedupeAdjacent(_)
\* a dedupe that drops a name only when it repeats the one just before it
DedupeAdjacent(list) ==
    IF list = <<>> THEN <<>>
    ELSE LET rest == DedupeAdjacent(SubSeq(list, 1, Len(list) - 1))
             last == list[Len(list)]
         IN  IF Len(list) > 1 /\ list[Len(list) - 1] = last THEN rest
             ELSE Append(rest, last)

RECURSIVE Dedupe(_)
\* Array.from(new Set(list)): first occurrences, in order
Dedupe(list) ==
    IF list = <<>> THEN <<>>
    ELSE LET rest == Dedupe(SubSeq(list, 1, Len(list) - 1))
             last == list[Len(list)]
         IN  IF \E i \in 1..Len(rest) : rest[i] = last THEN rest
             ELSE Append(rest, last)

Range(list) == {list[i] : i \in 1..Len(list)}

\* list.map(m => m.username)
Usernames(list) == [i \in 1..Len(list) |-> list[i].username]

\* the filters object used as the query, with no allow-list
ProjectAll(filters) == filters

\* Object.entries(filters).forEach(([k, v]) => { if (allowed.includes(k)) query[k] = v })
Project(filters) == [k \in (DOMAIN filters) \cap allowed |-> filters[k]]

\* a match on any one field of the query instead of all of them
MatchesAny(user, query) ==
    \E k \in DOMAIN query : k \in DOMAIN user /\ user[k] = query[k]

\* does a directory document satisfy every field of the query (MongoDB equality
\* match: a field the document lacks matches no value)
Matches(user, query) ==
    \A k \in DOMAIN query : k \in DOMAIN user /\ user[k] = query[k]

\* AdminUser.find(query): the matching documents in collection order
RECURSIVE Find(_, _)
Find(users, query) ==
    IF users = <<>> THEN <<>>
    ELSE LET rest == Find(SubSeq(users, 1, Len(users) - 1), query)
             last == users[Len(users)]
         IN  IF Matches(last, query) THEN Append(rest, last) ELSE rest

\* AdminUser.find({ username: { $in: recipients } })
RECURSIVE FindIn(_, _)
FindIn(users, names) ==
    IF users = <<>> THEN <<>>
    ELSE LET rest == FindIn(SubSeq(users, 1, Len(users) - 1), names)
             last == users[Len(users)]
         IN  IF last.username \in Range(names) THEN Append(rest, last) ELSE rest

\* the addresses without filter(Boolean): one entry per user, empty ones included
EmailsUnfiltered(users) == [i \in 1..Len(users) |-> users[i].email]

\* emailsFromUsers.map(u => u.email).filter(Boolean)
RECURSIVE Emails(_)
Emails(users) ==
    IF users = <<>> THEN <<>>
    ELSE LET rest == Emails(SubSeq(users, 1, Len(users) - 1))
             last == users[Len(users)]
         IN  IF last.email # "" THEN Append(rest, last.email) ELSE rest

(***************************************************************************)
(* Activation records.                                                     *)
(***************************************************************************)
NoFilters == [k \in {} |-> ""]

IdleSend ==
    [pc |-> "idle", id |-> NoId, actor |-> "", ip |-> "",
     status |-> "", channel |-> "", targetGroup |-> NoId, recipients |-> <<>>,
     query |-> NoFilters, emails |-> <<>>, caught |-> "", thrown |-> "",
     result |-> NoCount]

IdleTick == [pc |-> "idle", now |-> NoDate, scheduled |-> <<>>]

\* a group route that serves no request
IdleRequest ==
    [pc |-> "idle", id |-> NoId, name |-> "", username |-> "", members |-> <<>>,
     query |-> NoFilters, recipients |-> <<>>]

\* sendMessageById(id, actor, ip) is entered
Call(id, actor, ip) == [IdleSend EXCEPT !.pc = "findMessage", !.id = id,
                                        !.actor = actor, !.ip = ip]

\* the e-mail handler run for every channel
AfterResolveAnyChannel(channel) == "findEmails"

\* where the code goes once recipients is final: the channel handler or the save
AfterResolve(channel) == IF channel = "email" THEN "findEmails" ELSE "save"

\* one ActivityLog document
Log(user, action, id, count, ip) ==
    [user |-> user, action |-> action, id |-> id, count |-> count, ip |-> ip]

(***************************************************************************)
(* POST /messages                                                          *)
(***************************************************************************)
\* request bodies the operator submits: channel, targetGroupId, recipients
MessageRequests ==
    << [channel |-> "email",  targetGroupId |-> 1,    recipients |-> <<"dave", "alice">>],
       [channel |-> "in-app", targetGroupId |-> NoId, recipients |-> <<"bob", "bob">>],
       [channel |-> "email",  targetGroupId |-> 2,    recipients |-> <<"carol">>] >>

ScheduledAtInputs == {NoDate} \cup (1..MaxTime)

\* the status the route gives a new message
InitialStatus(scheduledAt, at) ==
    IF scheduledAt # NoDate /\ scheduledAt > at THEN "scheduled" ELSE "draft"

NewMessage(req, scheduledAt, at) ==
    [channel |-> req.channel, targetGroup |-> req.targetGroupId,
     recipients |-> req.recipients, scheduledAt |-> scheduledAt,
     status |-> InitialStatus(scheduledAt, at), sentAt |-> NoDate,
     deliveryReport |-> [recipientsCount |-> NoCount]]

\* a creation that takes any id, the id of a stored message included
CreateMessageOverwriting ==
    \E id \in MessageIds, req \in Range(MessageRequests), scheduledAt \in ScheduledAtInputs :
        /\ Len(activityLog) < 4
        /\ messages' = [j \in DOMAIN messages \cup {id} |->
                            IF j = id THEN NewMessage(req, scheduledAt, now) ELSE messages[j]]
        /\ activityLog' = Append(activityLog, Log("admin", "Create Message", id, NoCount, "client"))
        /\ UNCHANGED <<userGroups, adminUsers, transport, now, timer, sends, ticks,
                       opSends, faults, requests>>

\* const msg = new Message({...}); status; await msg.save(); await logActivity(...)
CreateMessage ==
    \E id \in MessageIds, req \in Range(MessageRequests), scheduledAt \in ScheduledAtInputs :
        /\ id \notin DOMAIN messages
        /\ \A j \in MessageIds : j < id => j \in DOMAIN messages
        /\ messages' = [j \in DOMAIN messages \cup {id} |->
                            IF j = id THEN NewMessage(req, scheduledAt, now) ELSE messages[j]]
        /\ activityLog' = Append(activityLog, Log("admin", "Create Message", id, NoCount, "client"))
        /\ UNCHANGED <<userGroups, adminUsers, transport, now, timer, sends, ticks,
                       opSends, faults, requests>>

\* POST /messages of the consolidated admin router: the status is left to the schema
\* default whatever scheduledAt is
CreateMessageAdmin ==
    \E id \in MessageIds, req \in Range(MessageRequests), scheduledAt \in ScheduledAtInputs :
        /\ id \notin DOMAIN messages
        /\ \A j \in MessageIds : j < id => j \in DOMAIN messages
        /\ messages' = [j \in DOMAIN messages \cup {id} |->
                            IF j = id
                            THEN [NewMessage(req, scheduledAt, now) EXCEPT !.status = "draft"]
                            ELSE messages[j]]
        /\ activityLog' = Append(activityLog, Log("admin", "Create Message", id, NoCount, "client"))
        /\ UNCHANGED <<userGroups, adminUsers, transport, now, timer, sends, ticks,
                       opSends, faults, requests>>

(***************************************************************************)
(* PUT /groups/:id and DELETE /groups/:id                                  *)
(***************************************************************************)
\* request bodies of PUT /groups/:id: the fields the operator supplies
GroupUpdates ==
    { [filters |-> [role |-> "admin"]],
      [isActive |-> FALSE],
      [filters |-> NoFilters, isActive |-> FALSE] }

\* requests that changed a group, served so far
GroupEdits ==
    Cardinality({i \in DOMAIN activityLog :
                    activityLog[i].action \in {"Update Group", "Delete Group", "Create Group",
                                               "Add Group Member", "Remove Group Member"}})

\* findByIdAndUpdate(id, { ...(filters && { filters }), ...(isActive !== undefined && { isActive }) })
Updated(group, body) ==
    [group EXCEPT !.filters = IF "filters" \in DOMAIN body THEN body.filters ELSE @,
                  !.isActive = IF "isActive" \in DOMAIN body THEN body.isActive ELSE @]

\* PUT /groups/:id on a group that exists (404 without any effect otherwise)
UpdateGroup ==
    \E id \in GroupIds, body \in GroupUpdates :
        /\ id \in DOMAIN userGroups
        /\ GroupEdits < MaxGroupEdits
        /\ userGroups' = [userGroups EXCEPT ![id] = Updated(@, body)]
        /\ activityLog' = Append(activityLog, Log("admin", "Update Group", id, NoCount, "client"))
        /\ UNCHANGED <<messages, adminUsers, transport, now, timer, sends, ticks,
                       opSends, faults, requests>>

\* DELETE /groups/:id on a group that exists (404 without any effect otherwise)
DeleteGroup ==
    \E id \in GroupIds :
        /\ id \in DOMAIN userGroups
        /\ GroupEdits < MaxGroupEdits
        /\ userGroups' = [g \in DOMAIN userGroups \ {id} |-> userGroups[g]]
        /\ activityLog' = Append(activityLog, Log("admin", "Delete Group", id, NoCount, "client"))
        /\ UNCHANGED <<messages, adminUsers, transport, now, timer, sends, ticks,
                       opSends, faults, requests>>

(***************************************************************************)
(* POST /groups, POST /groups/:id/members and                              *)
(* DELETE /groups/:id/members/:username.  Each has two awaits on the       *)
(* store, a read and a save, and so two steps; a request that ends in 400, *)
(* 404 or 409 at its read changes nothing and is left out.                 *)
(***************************************************************************)
\* a UserGroup document
Group(name, members, filters, isActive) ==
    [name |-> name, members |-> members, filters |-> filters, isActive |-> isActive]

\* a member who joined as the process started
Member(username) == [username |-> username, joinedAt |-> 0]

\* request bodies of POST /groups: name and members (usernames)
GroupRequests ==
    { [name |-> "H", members |-> <<>>],
      [name |-> "H", members |-> <<"alice", "alice">>],
      [name |-> "G", members |-> <<"bob">>] }

\* usernames the operator adds or removes
MemberInputs == {"alice", "bob", "carol"}

\* a member subdocument made now: joinedAt defaults to Date.now
NewMember(username) == [username |-> username, joinedAt |-> now]

\* create requests that have passed their read and not yet saved
PendingCreates == {p \in OpProcs : requests[p].pc = "createSave"}

\* const existing = await UserGroup.findOne({ name }); if (existing) return 409
CreateGroupFind(p) ==
    \E body \in GroupRequests :
        /\ requests[p].pc = "idle"
        /\ GroupEdits < MaxGroupEdits
        /\ Cardinality(PendingCreates) < Cardinality(GroupIds \ DOMAIN userGroups)
        /\ \A g \in DOMAIN userGroups : userGroups[g].name # body.name
        /\ requests' = [requests EXCEPT ![p] =
                           [IdleRequest EXCEPT !.pc = "createSave", !.name = body.name,
                                               !.members = body.members]]
        /\ UNCHANGED <<store, activityLog, transport, now, timer, sends, ticks, opSends,
                       faults>>

\* a save with no unique index on name
CreateGroupSaveWithoutIndex(p) ==
    /\ requests[p].pc = "createSave"
    /\ requests' = [requests EXCEPT ![p] = IdleRequest]
    /\ LET id == CHOOSE g \in GroupIds \ DOMAIN userGroups :
                     \A other \in GroupIds \ DOMAIN userGroups : g <= other
           members == [i \in DOMAIN requests[p].members |-> NewMember(requests[p].members[i])]
       IN  /\ userGroups' = [g \in DOMAIN userGroups \cup {id} |->
                                IF g = id
                                THEN Group(requests[p].name, members, NoFilters, TRUE)
                                ELSE userGroups[g]]
           /\ activityLog' = Append(activityLog,
                                 Log("admin", "Create Group", id, NoCount, "client"))
    /\ UNCHANGED <<messages, adminUsers, transport, now, timer, sends, ticks, opSends,
                   faults>>

\* await group.save(); the unique index on name rejects a second group of that name
CreateGroupSave(p) ==
    /\ requests[p].pc = "createSave"
    /\ requests' = [requests EXCEPT ![p] = IdleRequest]
    /\ IF \E g \in DOMAIN userGroups : userGroups[g].name = requests[p].name
       THEN UNCHANGED <<userGroups, activityLog>>
       ELSE LET id == CHOOSE g \in GroupIds \ DOMAIN userGroups :
                          \A other \in GroupIds \ DOMAIN userGroups : g <= other
                members == [i \in DOMAIN requests[p].members |->
                               NewMember(requests[p].members[i])]
            IN  /\ userGroups' = [g \in DOMAIN userGroups \cup {id} |->
                                     IF g = id
                                     THEN Group(requests[p].name, members, NoFilters, TRUE)
                                     ELSE userGroups[g]]
                /\ activityLog' = Append(activityLog,
                                      Log("admin", "Create Group", id, NoCount, "client"))
    /\ UNCHANGED <<messages, adminUsers, transport, now, timer, sends, ticks, opSends,
                   faults>>

\* names a PUT /groups/:id body gives a group
GroupNames == {"G", "H", "K"}

\* PUT /groups/:id with a name in the body: findByIdAndUpdate(id, { name }) on a group
\* that exists; the unique index on name rejects a name another group has (500
\* without any effect)
RenameGroup ==
    \E id \in GroupIds, name \in GroupNames :
        /\ id \in DOMAIN userGroups
        /\ GroupEdits < MaxGroupEdits
        /\ \A other \in DOMAIN userGroups \ {id} : userGroups[other].name # name
        /\ userGroups' = [userGroups EXCEPT ![id].name = name]
        /\ activityLog' = Append(activityLog, Log("admin", "Update Group", id, NoCount, "client"))
        /\ UNCHANGED <<messages, adminUsers, transport, now, timer, sends, ticks,
                       opSends, faults, requests>>

\* const group = await UserGroup.findById(id); 404; 409 if already a member; push
AddMemberFind(p) ==
    \E id \in GroupIds, username \in MemberInputs :
        /\ requests[p].pc = "idle"
        /\ GroupEdits < MaxGroupEdits
        /\ id \in DOMAIN userGroups
        /\ username \notin Range(Usernames(userGroups[id].members))
        /\ requests' = [requests EXCEPT ![p] =
                           [IdleRequest EXCEPT !.pc = "addSave", !.id = id,
                                               !.username = username]]
        /\ UNCHANGED <<store, activityLog, transport, now, timer, sends, ticks, opSends,
                       faults>>

\* await group.save(): the pushed member is appended to the stored array ($push);
\* the save of a document that was deleted meanwhile rejects
AddMemberSave(p) ==
    /\ requests[p].pc = "addSave"
    /\ requests' = [requests EXCEPT ![p] = IdleRequest]
    /\ LET id == requests[p].id IN
       IF id \notin DOMAIN userGroups
       THEN UNCHANGED <<userGroups, activityLog>>
       ELSE /\ userGroups' = [userGroups EXCEPT ![id].members =
                                 Append(@, NewMember(requests[p].username))]
            /\ activityLog' = Append(activityLog,
                                  Log("admin", "Add Group Member", id, NoCount, "client"))
    /\ UNCHANGED <<messages, adminUsers, transport, now, timer, sends, ticks, opSends,
                   faults>>

\* const group = await UserGroup.findById(id); 404 if missing
RemoveMemberFind(p) ==
    \E id \in GroupIds, username \in MemberInputs :
        /\ requests[p].pc = "idle"
        /\ GroupEdits < MaxGroupEdits
        /\ id \in DOMAIN userGroups
        /\ requests' = [requests EXCEPT ![p] =
                           [IdleRequest EXCEPT !.pc = "removeSave", !.id = id,
                                               !.username = username,
                                               !.members = userGroups[id].members]]
        /\ UNCHANGED <<store, activityLog, transport, now, timer, sends, ticks, opSends,
                       faults>>

\* group.members.filter(m => m.username !== username)
RECURSIVE Without(_, _)
Without(members, username) ==
    IF members = <<>> THEN <<>>
    ELSE LET rest == Without(SubSeq(members, 1, Len(members) - 1), username)
             last == members[Len(members)]
         IN  IF last.username # username THEN Append(rest, last) ELSE rest

\* group.members = group.members.filter(...); await group.save(): the array as the
\* request read it, filtered, replaces the stored array
RemoveMemberSave(p) ==
    /\ requests[p].pc = "removeSave"
    /\ requests' = [requests EXCEPT ![p] = IdleRequest]
    /\ LET id == requests[p].id IN
       IF id \notin DOMAIN userGroups
       THEN UNCHANGED <<userGroups, activityLog>>
       ELSE /\ userGroups' = [userGroups EXCEPT ![id].members =
                                 Without(requests[p].members, requests[p].username)]
            /\ activityLog' = Append(activityLog,
                                  Log("admin", "Remove Group Member", id, NoCount, "client"))
    /\ UNCHANGED <<messages, adminUsers, transport, now, timer, sends, ticks, opSends,
                   faults>>

\* the save of a replaced array rejects when the stored array changed since the read
\* (document version check): the request ends in 500 and nothing is written
RemoveMemberConflict(p) ==
    /\ requests[p].pc = "removeSave"
    /\ requests[p].id \in DOMAIN userGroups
    /\ userGroups[requests[p].id].members # requests[p].members
    /\ requests' = [requests EXCEPT ![p] = IdleRequest]
    /\ UNCHANGED <<store, activityLog, transport, now, timer, sends, ticks, opSends,
                   faults>>

(***************************************************************************)
(* GET /groups/:id/members: the member preview.  It reads the group, then  *)
(* the directory when the filters name an allow-listed key, and answers    *)
(* with the list; it writes nothing.                                       *)
(***************************************************************************)
\* the answer once the list is final: Array.from(new Set(recipients))
Previewed(r, list) ==
    [r EXCEPT !.recipients = Dedupe(list), !.query = NoFilters, !.pc = "previewed"]

\* a preview that lists the manual members only
PreviewFindMembersOnly(p) ==
    \E id \in GroupIds :
        /\ requests[p].pc = "idle"
        /\ id \in DOMAIN userGroups
        /\ requests' = [requests EXCEPT ![p] =
                           Previewed([IdleRequest EXCEPT !.id = id],
                                     Usernames(userGroups[id].members))]
        /\ UNCHANGED <<store, activityLog, transport, now, timer, sends, ticks, opSends,
                       faults>>

\* const group = await UserGroup.findById(id); 404 if missing; members; query
PreviewFind(p) ==
    \E id \in GroupIds :
        /\ requests[p].pc = "idle"
        /\ id \in DOMAIN userGroups
        /\ LET group == userGroups[id]
               list == Usernames(group.members)
               query == Project(group.filters)
               r == [IdleRequest EXCEPT !.id = id]
           IN  requests' = [requests EXCEPT ![p] =
                   IF DOMAIN query # {}
                   THEN [r EXCEPT !.recipients = list, !.query = query,
                                  !.pc = "previewMatched"]
                   ELSE Previewed(r, list)]
        /\ UNCHANGED <<store, activityLog, transport, now, timer, sends, ticks, opSends,
                       faults>>

\* const matched = await AdminUser.find(query, 'username email'); concat; dedupe
PreviewMatched(p) ==
    /\ requests[p].pc = "previewMatched"
    /\ LET r == requests[p]
           matched == Find(adminUsers, r.query)
       IN  requests' = [requests EXCEPT ![p] =
                           Previewed(r, r.recipients \o Usernames(matched))]
    /\ UNCHANGED <<store, activityLog, transport, now, timer, sends, ticks, opSends,
                   faults>>

\* res.json({ recipients })
PreviewRespond(p) ==
    /\ requests[p].pc = "previewed"
    /\ requests' = [requests EXCEPT ![p] = IdleRequest]
    /\ UNCHANGED <<store, activityLog, transport, now, timer, sends, ticks, opSends,
                   faults>>

(***************************************************************************)
(* sendMessageById                                                         *)
(***************************************************************************)
\* POST /messages/:id/send calls sendMessageById(id, req.user.username, req.ip)
SendRequest(p) ==
    \E id \in MessageIds \cup {MissingMessageId} :
        /\ p \in OpProcs
        /\ sends[p].pc = "idle"
        /\ opSends[p] < MaxOpSends
        /\ opSends' = [opSends EXCEPT ![p] = @ + 1]
        /\ sends' = [sends EXCEPT ![p] = Call(id, "admin", "client")]
        /\ UNCHANGED <<store, activityLog, transport, now, timer, ticks, faults,
                       requests>>

\* the list kept as it is, duplicates included
ResolvedWithDuplicates(s, list) ==
    [s EXCEPT !.recipients = list, !.pc = AfterResolve(s.channel)]

\* recipients once the group part is over: Array.from(new Set(recipients))
Resolved(s, list) ==
    [s EXCEPT !.recipients = Dedupe(list), !.pc = AfterResolve(s.channel)]

\* a lookup that rejects when the group the message refers to is gone
FindMessageRejectingMissingGroup(p) ==
    /\ sends[p].pc = "findMessage"
    /\ LET s == sends[p] IN
       IF s.id \notin DOMAIN messages
       THEN sends' = [sends EXCEPT ![p] = [s EXCEPT !.pc = "returned"]]
       ELSE LET msg == messages[s.id]
                loaded == [s EXCEPT !.status = msg.status,
                                    !.channel = msg.channel,
                                    !.targetGroup = msg.targetGroup,
                                    !.recipients = msg.recipients]
            IN  sends' = [sends EXCEPT ![p] =
                    IF msg.targetGroup = NoId THEN Resolved(loaded, msg.recipients)
                    ELSE IF msg.targetGroup \in DOMAIN userGroups
                         THEN [loaded EXCEPT !.pc = "findGroup"]
                         ELSE [loaded EXCEPT !.pc = "returned", !.thrown = "findMessage"]]
    /\ UNCHANGED <<store, activityLog, transport, now, timer, ticks, opSends, faults,
                   requests>>

\* a lookup that records the miss in the ActivityLog before it returns null
FindMessageAuditingMiss(p) ==
    /\ sends[p].pc = "findMessage"
    /\ LET s == sends[p] IN
       IF s.id \notin DOMAIN messages
       THEN /\ sends' = [sends EXCEPT ![p] = [s EXCEPT !.pc = "returned"]]
            /\ activityLog' = Append(activityLog,
                                  Log(s.actor, "Send Message Error", s.id, NoCount, s.ip))
       ELSE LET msg == messages[s.id]
                populated == IF msg.targetGroup \in DOMAIN userGroups
                             THEN msg.targetGroup ELSE NoId
                loaded == [s EXCEPT !.status = msg.status,
                                    !.channel = msg.channel,
                                    !.targetGroup = populated,
                                    !.recipients = msg.recipients]
            IN  /\ sends' = [sends EXCEPT ![p] =
                        IF populated # NoId THEN [loaded EXCEPT !.pc = "findGroup"]
                        ELSE Resolved(loaded, msg.recipients)]
                /\ activityLog' = activityLog
    /\ UNCHANGED <<store, transport, now, timer, ticks, opSends, faults, requests>>

\* const msg = await Message.findById(id).populate('targetGroup'); if (!msg) return null
FindMessage(p) ==
    /\ sends[p].pc = "findMessage"
    /\ LET s == sends[p] IN
       IF s.id \notin DOMAIN messages
       THEN sends' = [sends EXCEPT ![p] = [s EXCEPT !.pc = "returned"]]
       ELSE LET msg == messages[s.id]
                \* populate leaves null when the referenced group is gone
                populated == IF msg.targetGroup \in DOMAIN userGroups
                             THEN msg.targetGroup ELSE NoId
                loaded == [s EXCEPT !.status = msg.status,
                                    !.channel = msg.channel,
                                    !.targetGroup = populated,
                                    !.recipients = msg.recipients]
            IN  sends' = [sends EXCEPT ![p] =
                    IF populated # NoId THEN [loaded EXCEPT !.pc = "findGroup"]
                    ELSE Resolved(loaded, msg.recipients)]
    /\ UNCHANGED <<store, activityLog, transport, now, timer, ticks, opSends, faults,
                   requests>>

\* a resolution that takes members and filters of active groups only
FindGroupActiveOnly(p) ==
    /\ sends[p].pc = "findGroup"
    /\ LET s == sends[p] IN
       IF s.targetGroup \notin DOMAIN userGroups \/ ~userGroups[s.targetGroup].isActive
       THEN sends' = [sends EXCEPT ![p] = Resolved(s, s.recipients)]
       ELSE LET group == userGroups[s.targetGroup]
                list == s.recipients \o Usernames(group.members)
                query == Project(group.filters)
            IN  sends' = [sends EXCEPT ![p] =
                    IF DOMAIN query # {}
                    THEN [s EXCEPT !.recipients = list, !.query = query, !.pc = "findMatched"]
                    ELSE Resolved(s, list)]
    /\ UNCHANGED <<store, activityLog, transport, now, timer, ticks, opSends, faults,
                   requests>>

\* const group = await UserGroup.findById(msg.targetGroup._id); manual members, query
FindGroup(p) ==
    /\ sends[p].pc = "findGroup"
    /\ LET s == sends[p] IN
       IF s.targetGroup \notin DOMAIN userGroups
       THEN sends' = [sends EXCEPT ![p] = Resolved(s, s.recipients)]
       ELSE LET group == userGroups[s.targetGroup]
                list == s.recipients \o Usernames(group.members)
                query == Project(group.filters)
            IN  sends' = [sends EXCEPT ![p] =
                    IF DOMAIN query # {}
                    THEN [s EXCEPT !.recipients = list, !.query = query, !.pc = "findMatched"]
                    ELSE Resolved(s, list)]
    /\ UNCHANGED <<store, activityLog, transport, now, timer, ticks, opSends, faults,
                   requests>>

\* const matched = await AdminUser.find(query, 'username'); concat; dedupe
FindMatched(p) ==
    /\ sends[p].pc = "findMatched"
    /\ LET s == sends[p]
           matched == Find(adminUsers, s.query)
       IN  sends' = [sends EXCEPT ![p] =
                        Resolved([s EXCEPT !.query = NoFilters],
                                 s.recipients \o Usernames(matched))]
    /\ UNCHANGED <<store, activityLog, transport, now, timer, ticks, opSends, faults,
                   requests>>

\* a lookup that goes on to the transport call also with no address at all
FindEmailsAlwaysCalling(p) ==
    /\ sends[p].pc = "findEmails"
    /\ LET s == sends[p]
           emails == Emails(FindIn(adminUsers, s.recipients))
       IN  sends' = [sends EXCEPT ![p] = [s EXCEPT !.emails = emails, !.pc = "sendEmail"]]
    /\ UNCHANGED <<store, activityLog, transport, now, timer, ticks, opSends, faults,
                   requests>>

\* const emailsFromUsers = await AdminUser.find({ username: { $in: recipients } }, 'email')
FindEmails(p) ==
    /\ sends[p].pc = "findEmails"
    /\ LET s == sends[p]
           emails == Emails(FindIn(adminUsers, s.recipients))
       IN  sends' = [sends EXCEPT ![p] =
                        IF emails # <<>>
                        THEN [s EXCEPT !.emails = emails, !.pc = "sendEmail"]
                        ELSE [s EXCEPT !.pc = "save"]]
    /\ UNCHANGED <<store, activityLog, transport, now, timer, ticks, opSends, faults,
                   requests>>

\* a transport call that stamps sentAt on the stored message as soon as it resolves
SendEmailStampingSentAt(p) ==
    /\ sends[p].pc = "sendEmail"
    /\ transport' = Append(transport, [id |-> sends[p].id, to |-> sends[p].emails, ok |-> TRUE])
    /\ messages' = [messages EXCEPT ![sends[p].id].sentAt = now]
    /\ sends' = [sends EXCEPT ![p].pc = "save", ![p].emails = <<>>]
    /\ UNCHANGED <<userGroups, adminUsers, activityLog, now, timer, ticks, opSends, faults,
                   requests>>

\* await delivery.sendEmail({ to: emails, ... }) resolves
SendEmail(p) ==
    /\ sends[p].pc = "sendEmail"
    /\ transport' = Append(transport, [id |-> sends[p].id, to |-> sends[p].emails, ok |-> TRUE])
    /\ sends' = [sends EXCEPT ![p].pc = "save", ![p].emails = <<>>]
    /\ UNCHANGED <<store, activityLog, now, timer, ticks, opSends, faults, requests>>

\* a save that reports the number of addresses written to instead of the audience
SaveMessageCountingAddresses(p) ==
    /\ sends[p].pc = "save"
    /\ LET s == sends[p]
           count == IF s.channel = "email"
                    THEN Len(Emails(FindIn(adminUsers, s.recipients)))
                    ELSE Len(s.recipients)
       IN  /\ messages' = [messages EXCEPT ![s.id] =
                              [@ EXCEPT !.status = "sent", !.sentAt = now,
                                        !.deliveryReport = [recipientsCount |-> count]]]
           /\ sends' = [sends EXCEPT ![p].pc = "logSend"]
    /\ UNCHANGED <<userGroups, adminUsers, activityLog, transport, now, timer, ticks,
                   opSends, faults, requests>>

\* a save that marks the message sent without stamping sentAt
SaveMessageWithoutDate(p) ==
    /\ sends[p].pc = "save"
    /\ LET s == sends[p] IN
       /\ messages' = [messages EXCEPT ![s.id] =
                          [@ EXCEPT !.status = "sent",
                                    !.deliveryReport = [recipientsCount |-> Len(s.recipients)]]]
       /\ sends' = [sends EXCEPT ![p].pc = "logSend"]
    /\ UNCHANGED <<userGroups, adminUsers, activityLog, transport, now, timer, ticks,
                   opSends, faults, requests>>

\* a save that also stores the resolved list as the recipients of the message
SaveMessageWithRecipients(p) ==
    /\ sends[p].pc = "save"
    /\ LET s == sends[p] IN
       /\ messages' = [messages EXCEPT ![s.id] =
                          [@ EXCEPT !.status = "sent", !.sentAt = now,
                                    !.recipients = s.recipients,
                                    !.deliveryReport = [recipientsCount |-> Len(s.recipients)]]]
       /\ sends' = [sends EXCEPT ![p].pc = "logSend"]
    /\ UNCHANGED <<userGroups, adminUsers, activityLog, transport, now, timer, ticks,
                   opSends, faults, requests>>

\* a save that stores sentAt and the report and leaves the status as it was
SaveMessageKeepingStatus(p) ==
    /\ sends[p].pc = "save"
    /\ LET s == sends[p] IN
       /\ messages' = [messages EXCEPT ![s.id] =
                          [@ EXCEPT !.sentAt = now,
                                    !.deliveryReport = [recipientsCount |-> Len(s.recipients)]]]
       /\ sends' = [sends EXCEPT ![p].pc = "logSend"]
    /\ UNCHANGED <<userGroups, adminUsers, activityLog, transport, now, timer, ticks,
                   opSends, faults, requests>>

\* msg.status = 'sent'; msg.sentAt = new Date(); msg.deliveryReport = {...}; await msg.save()
SaveMessage(p) ==
    /\ sends[p].pc = "save"
    /\ LET s == sends[p] IN
       /\ messages' = [messages EXCEPT ![s.id] =
                          [@ EXCEPT !.status = "sent", !.sentAt = now,
                                    !.deliveryReport = [recipientsCount |-> Len(s.recipients)]]]
       /\ sends' = [sends EXCEPT ![p].pc = "logSend"]
    /\ UNCHANGED <<userGroups, adminUsers, activityLog, transport, now, timer, ticks,
                   opSends, faults, requests>>

\* an audit record of the send that leaves the recipient count out
LogSendWithoutCount(p) ==
    /\ sends[p].pc = "logSend"
    /\ LET s == sends[p] IN
       /\ activityLog' = Append(activityLog, Log(s.actor, "Send Message", s.id, NoCount, s.ip))
       /\ sends' = [sends EXCEPT ![p].pc = "returned", ![p].result = Len(s.recipients)]
    /\ UNCHANGED <<store, transport, now, timer, ticks, opSends, faults, requests>>

\* await ActivityLog.create({ user: actor, action: 'Send Message', ... }); return {...}
LogSend(p) ==
    /\ sends[p].pc = "logSend"
    /\ LET s == sends[p] IN
       /\ activityLog' = Append(activityLog,
                             Log(s.actor, "Send Message", s.id, Len(s.recipients), s.ip))
       /\ sends' = [sends EXCEPT ![p].pc = "returned", ![p].result = Len(s.recipients)]
    /\ UNCHANGED <<store, transport, now, timer, ticks, opSends, faults, requests>>

\* the route answers: 404 on null, 200 with recipientsCount, 500 on a throw
Respond(p) ==
    /\ p \in OpProcs
    /\ sends[p].pc = "returned"
    /\ sends' = [sends EXCEPT ![p] = IdleSend]
    /\ UNCHANGED <<store, activityLog, transport, now, timer, ticks, opSends, faults,
                   requests>>

(***************************************************************************)
(* Rejected awaits.  A call that fails outside the try block rejects the   *)
(* whole sendMessageById; the two calls inside the try block (lines 40-47) *)
(* are caught and lead to the 'Send Message Error' record.                 *)
(***************************************************************************)
Uncaught == {"findMessage", "findGroup", "findMatched", "logSendError", "save", "logSend"}

\* a rejected directory query swallowed by a catch: the send goes on without matches
ThrowsSwallowed(p) ==
    /\ sends[p].pc \in Uncaught
    /\ faults < MaxFaults
    /\ faults' = faults + 1
    /\ sends' = [sends EXCEPT ![p] =
                    IF sends[p].pc = "findMatched"
                    THEN Resolved([sends[p] EXCEPT !.query = NoFilters], sends[p].recipients)
                    ELSE [sends[p] EXCEPT !.pc = "returned", !.thrown = sends[p].pc]]
    /\ UNCHANGED <<store, activityLog, transport, now, timer, ticks, opSends, requests>>

Throws(p) ==
    /\ sends[p].pc \in Uncaught
    /\ faults < MaxFaults
    /\ faults' = faults + 1
    /\ sends' = [sends EXCEPT ![p].pc = "returned", ![p].thrown = sends[p].pc]
    /\ UNCHANGED <<store, activityLog, transport, now, timer, ticks, opSends, requests>>

\* AdminUser.find for the e-mail addresses rejects: caught
FindEmailsFails(p) ==
    /\ sends[p].pc = "findEmails"
    /\ faults < MaxFaults
    /\ faults' = faults + 1
    /\ sends' = [sends EXCEPT ![p].pc = "logSendError", ![p].caught = "findEmails"]
    /\ UNCHANGED <<store, activityLog, transport, now, timer, ticks, opSends, requests>>

\* the relay's rejection let through: it rejects the whole send
SendEmailFailsUncaught(p) ==
    /\ sends[p].pc = "sendEmail"
    /\ faults < MaxFaults
    /\ faults' = faults + 1
    /\ transport' = Append(transport, [id |-> sends[p].id, to |-> sends[p].emails, ok |-> FALSE])
    /\ sends' = [sends EXCEPT ![p].pc = "returned", ![p].thrown = "sendEmail",
                              ![p].emails = <<>>]
    /\ UNCHANGED <<store, activityLog, now, timer, ticks, opSends, requests>>

\* delivery.sendEmail was called and rejects: caught
SendEmailFails(p) ==
    /\ sends[p].pc = "sendEmail"
    /\ faults < MaxFaults
    /\ faults' = faults + 1
    /\ transport' = Append(transport, [id |-> sends[p].id, to |-> sends[p].emails, ok |-> FALSE])
    /\ sends' = [sends EXCEPT ![p].pc = "logSendError", ![p].caught = "sendEmail",
                              ![p].emails = <<>>]
    /\ UNCHANGED <<store, activityLog, now, timer, ticks, opSends, requests>>

\* catch (err) { await ActivityLog.create({ action: 'Send Message Error', ... }) }
LogSendError(p) ==
    /\ sends[p].pc = "logSendError"
    /\ LET s == sends[p] IN
       /\ activityLog' = Append(activityLog,
                             Log(s.actor, "Send Message Error", s.id, NoCount, s.ip))
       /\ sends' = [sends EXCEPT ![p].pc = "save"]
    /\ UNCHANGED <<store, transport, now, timer, ticks, opSends, faults, requests>>

(***************************************************************************)
(* Scheduler                                                               *)
(***************************************************************************)
\* a start that installs its interval without clearing the one already running
startSchedulerStacking ==
    \E fresh \in TimerIds \ intervals :
        /\ \A other \in TimerIds \ intervals : fresh <= other
        /\ intervals' = intervals \cup {fresh}
        /\ schedulerTimer' = fresh
        /\ UNCHANGED <<store, activityLog, transport, now, sends, ticks, opSends, faults,
                       requests>>

\* if (schedulerTimer) clearInterval(schedulerTimer); schedulerTimer = setInterval(...)
\* (setInterval returns the first handle no running interval has)
startScheduler ==
    \E fresh \in TimerIds \ intervals :
        /\ \A other \in TimerIds \ intervals : fresh <= other
        /\ intervals' = (intervals \ {schedulerTimer}) \cup {fresh}
        /\ schedulerTimer' = fresh
        /\ UNCHANGED <<store, activityLog, transport, now, sends, ticks, opSends, faults,
                       requests>>

\* if (schedulerTimer) clearInterval(schedulerTimer); schedulerTimer = null
stopScheduler ==
    /\ intervals' = intervals \ {schedulerTimer}
    /\ schedulerTimer' = NoId
    /\ UNCHANGED <<store, activityLog, transport, now, sends, ticks, opSends, faults,
                   requests>>

\* the tick process that runs the next firing of the interval callback
FreeTick(t) ==
    \E i \in DOMAIN TickOrder :
        /\ TickOrder[i] = t
        /\ ticks[t].pc = "idle"
        /\ \A j \in 1..(i - 1) : ticks[TickOrder[j]].pc # "idle"

\* an interval that waits for the callbacks it started before it fires again
TickAfterPrevious(t) ==
    /\ intervals # {}
    /\ FreeTick(t)
    /\ \A other \in TickProcs : ticks[other].pc = "idle"
    /\ ticks' = [ticks EXCEPT ![t] = [pc |-> "find", now |-> now, scheduled |-> <<>>]]
    /\ UNCHANGED <<store, activityLog, transport, now, timer, sends, opSends, faults,
                   requests>>

\* an interval fires: const now = new Date(); Message.find(...) is issued
Tick(t) ==
    /\ intervals # {}
    /\ FreeTick(t)
    /\ ticks' = [ticks EXCEPT ![t] = [pc |-> "find", now |-> now, scheduled |-> <<>>]]
    /\ UNCHANGED <<store, activityLog, transport, now, timer, sends, opSends, faults,
                   requests>>

\* a query that forgets the status: every message whose date has passed
RECURSIVE DueAnyStatus(_, _)
DueAnyStatus(ids, at) ==
    IF ids = {} THEN <<>>
    ELSE LET id == CHOOSE i \in ids : \A j \in ids : i <= j
             rest == DueAnyStatus(ids \ {id}, at)
             msg == messages[id]
         IN  IF msg.scheduledAt # NoDate /\ msg.scheduledAt <= at
             THEN <<id>> \o rest ELSE rest

\* a query with $lt in place of $lte
RECURSIVE DueStrictly(_, _)
DueStrictly(ids, at) ==
    IF ids = {} THEN <<>>
    ELSE LET id == CHOOSE i \in ids : \A j \in ids : i <= j
             rest == DueStrictly(ids \ {id}, at)
             msg == messages[id]
         IN  IF msg.status = "scheduled" /\ msg.scheduledAt # NoDate /\ msg.scheduledAt < at
             THEN <<id>> \o rest ELSE rest

\* Message.find({ status: 'scheduled', scheduledAt: { $lte: now } }) at time `at`
RECURSIVE Due(_, _)
Due(ids, at) ==
    IF ids = {} THEN <<>>
    ELSE LET id == CHOOSE i \in ids : \A j \in ids : i <= j
             rest == Due(ids \ {id}, at)
             msg == messages[id]
         IN  IF msg.status = "scheduled" /\ msg.scheduledAt # NoDate /\ msg.scheduledAt <= at
             THEN <<id>> \o rest ELSE rest

\* the loop takes its next message, or the callback ends
Loop(t, scheduled) ==
    IF scheduled = <<>>
    THEN /\ ticks' = [ticks EXCEPT ![t] = IdleTick]
         /\ sends' = [sends EXCEPT ![t] = IdleSend]
    ELSE /\ ticks' = [ticks EXCEPT ![t].pc = "loop", ![t].scheduled = scheduled]
         /\ sends' = [sends EXCEPT ![t] = Call(Head(scheduled), "system", "scheduler")]

\* the query resolves; for (const msg of scheduled) starts
TickFind(t) ==
    /\ ticks[t].pc = "find"
    /\ Loop(t, Due(DOMAIN messages, ticks[t].now))
    /\ UNCHANGED <<store, activityLog, transport, now, timer, opSends, faults,
                   requests>>

\* an outer catch that gives the timer up
TickFindFailsStopping(t) ==
    /\ ticks[t].pc = "find"
    /\ faults < MaxFaults
    /\ faults' = faults + 1
    /\ ticks' = [ticks EXCEPT ![t] = IdleTick]
    /\ intervals' = {}
    /\ schedulerTimer' = NoId
    /\ UNCHANGED <<store, activityLog, transport, now, sends, opSends, requests>>

\* the query rejects: the outer catch ends the callback
TickFindFails(t) ==
    /\ ticks[t].pc = "find"
    /\ faults < MaxFaults
    /\ faults' = faults + 1
    /\ ticks' = [ticks EXCEPT ![t] = IdleTick]
    /\ UNCHANGED <<store, activityLog, transport, now, timer, sends, opSends, requests>>

\* a loop without the inner try: a rejected send ends the callback in the outer catch
TickNextAbort(t) ==
    /\ ticks[t].pc = "loop"
    /\ sends[t].pc = "returned"
    /\ Loop(t, IF sends[t].thrown # "" THEN <<>> ELSE Tail(ticks[t].scheduled))
    /\ UNCHANGED <<store, activityLog, transport, now, timer, opSends, faults,
                   requests>>

\* try { await sendMessageById(...) } catch (e) { /* ignore */ }: on to the next message
TickNext(t) ==
    /\ ticks[t].pc = "loop"
    /\ sends[t].pc = "returned"
    /\ Loop(t, Tail(ticks[t].scheduled))
    /\ UNCHANGED <<store, activityLog, transport, now, timer, opSends, faults,
                   requests>>

(***************************************************************************)
(* Time                                                                    *)
(***************************************************************************)
AdvanceClock ==
    /\ now < MaxTime
    /\ now' = now + 1
    /\ UNCHANGED <<store, activityLog, transport, timer, sends, ticks, opSends, faults,
                   requests>>

(***************************************************************************)
(* Specification of the dispatch subsystem.                                *)
(***************************************************************************)
\* the directory and the group of the scenario of the specification
\* (the boolean isActive of a directory document and of a filter is written as the
\* string "true" or "false", so that a filters object holds values of one kind)
Directory ==
    << [username |-> "alice", email |-> "alice@x", role |-> "user",      isActive |-> "true"],
       [username |-> "bob",   email |-> "",        role |-> "moderator", isActive |-> "true"],
       [username |-> "carol", email |-> "carol@x", role |-> "admin",     isActive |-> "false"] >>

\* everything but the Message collection, as the process starts
Started ==
    /\ userGroups = [g \in {1} |-> Group("G", <<Member("alice")>>,
                                         [role |-> "moderator"], TRUE)]
    /\ adminUsers = Directory
    /\ activityLog = <<>>
    /\ transport = <<>>
    /\ now = 0
    /\ schedulerTimer = NoId
    /\ intervals = {}
    /\ sends = [p \in Procs |-> IdleSend]
    /\ ticks = [t \in TickProcs |-> IdleTick]
    /\ opSends = [p \in OpProcs |-> 0]
    /\ requests = [p \in OpProcs |-> IdleRequest]
    /\ faults = 0

\* two messages the operator created at time 0 (POST /messages): the first to the
\* group by e-mail, with a date that is already due (draft) or still to come
\* (scheduled); the second an in-app draft without a group or a date
Init ==
    /\ \E scheduledAt \in {0, 1} :
          messages = << NewMessage(MessageRequests[1], scheduledAt, 0),
                        NewMessage(MessageRequests[2], NoDate, 0) >>
    /\ Started

Send(p) ==
    \/ FindMessage(p)
    \/ FindGroup(p)
    \/ FindMatched(p)
    \/ FindEmails(p)
    \/ SendEmail(p)
    \/ SaveMessage(p)
    \/ LogSend(p)

Fails(p) ==
    \/ Throws(p)
    \/ FindEmailsFails(p)
    \/ SendEmailFails(p)
    \/ LogSendError(p)

Scheduler(t) ==
    \/ Tick(t)
    \/ TickFind(t)
    \/ TickNext(t)

\* one operator request at a time and no overlapping ticks
SpecProcs == {"op1", "tick1"}

Next ==
    \/ \E p \in SpecProcs \cap OpProcs : SendRequest(p) \/ Respond(p)
    \/ \E p \in SpecProcs : Send(p)
    \/ \E p \in SpecProcs : Fails(p)
    \/ startScheduler
    \/ stopScheduler
    \/ \E t \in SpecProcs \cap TickProcs : Scheduler(t) \/ TickFindFails(t)
    \/ AdvanceClock

Spec == Init /\ [][Next]_vars

(***************************************************************************)
(* Audience resolution on its own: one message, sent by the operator, over *)
(* every combination of explicit recipients, target (none, the group, a    *)
(* group that is gone), manual members, filters and channel.               *)
(***************************************************************************)
\* values a filter may require of each key; department is no field of the directory
FilterValues ==
    [role |-> {"moderator", "admin"}, isActive |-> {"true", "false"},
     username |-> {"carol"}, department |-> {"x", "y"}]

\* every filters object over subsets of these keys
Filters ==
    UNION { {f \in [ks -> UNION {FilterValues[k] : k \in ks}] :
                \A k \in ks : f[k] \in FilterValues[k]} : ks \in SUBSET DOMAIN FilterValues }

MemberLists == { <<>>, <<Member("alice")>>, <<Member("alice"), Member("bob")>> }
RecipientLists == { <<>>, <<"bob", "bob">>, <<"dave", "alice">> }

InitResolve ==
    /\ \E channel \in Channels, target \in {NoId, 1, 2}, recipients \in RecipientLists :
          messages = << NewMessage([channel |-> channel, targetGroupId |-> target,
                                    recipients |-> recipients], NoDate, 0) >>
    /\ \E members \in MemberLists, filters \in Filters, isActive \in BOOLEAN :
          userGroups = [g \in {1} |-> Group("G", members, filters, isActive)]
    /\ adminUsers = Directory
    /\ activityLog = <<>>
    /\ transport = <<>>
    /\ now = 0
    /\ schedulerTimer = NoId
    /\ intervals = {}
    /\ sends = [p \in Procs |-> IdleSend]
    /\ ticks = [t \in TickProcs |-> IdleTick]
    /\ opSends = [p \in OpProcs |-> 0]
    /\ requests = [p \in OpProcs |-> IdleRequest]
    /\ faults = 0

NextResolve ==
    \/ SendRequest("op1")
    \/ Send("op1")
    \/ Respond("op1")

ResolveSpec == InitResolve /\ [][NextResolve]_vars

(***************************************************************************)
(* Two groups that differ in nothing but the filter keys outside the       *)
(* allow-list, each the target of one of two otherwise equal messages, and *)
(* two operator requests that may run side by side.                        *)
(***************************************************************************)
InitFilter ==
    /\ \E recipients \in {<<"dave", "alice">>} :
          messages = [id \in {1, 2} |->
                         NewMessage([channel |-> "email", targetGroupId |-> id,
                                     recipients |-> recipients], NoDate, 0)]
    /\ \E f1 \in Filters, f2 \in Filters, members \in {<<Member("alice")>>} :
          /\ [k \in allowed \cap DOMAIN f1 |-> f1[k]] = [k \in allowed \cap DOMAIN f2 |-> f2[k]]
          /\ userGroups = <<Group("G1", members, f1, TRUE), Group("G2", members, f2, TRUE)>>
    /\ adminUsers = Directory
    /\ activityLog = <<>>
    /\ transport = <<>>
    /\ now = 0
    /\ schedulerTimer = NoId
    /\ intervals = {}
    /\ sends = [p \in Procs |-> IdleSend]
    /\ ticks = [t \in TickProcs |-> IdleTick]
    /\ opSends = [p \in OpProcs |-> 0]
    /\ requests = [p \in OpProcs |-> IdleRequest]
    /\ faults = 0

NextFilter ==
    \E p \in OpProcs :
        \/ SendRequest(p)
        \/ Send(p)
        \/ Respond(p)

FilterSpec == InitFilter /\ [][NextFilter]_vars

(***************************************************************************)
(* The same system when every store, directory and relay call succeeds,    *)
(* with the progress the event loop gives: a pending await resolves and an *)
(* installed interval fires again.                                         *)
(***************************************************************************)
\* two messages created at time 0 with various dates, so that none, one or both
\* come due, together or one after the other
InitLive ==
    /\ \E s1 \in 0..MaxTime, second \in {<<2, NoDate>>} \cup {<<3, d>> : d \in 1..MaxTime} :
          messages = << NewMessage(MessageRequests[1], s1, 0),
                        NewMessage(MessageRequests[second[1]], second[2], 0) >>
    /\ Started

NextLive ==
    \/ Send("tick1")
    \/ startScheduler
    \/ stopScheduler
    \/ Scheduler("tick1")
    \/ AdvanceClock

Progress == WF_vars(Send("tick1")) /\ WF_vars(Scheduler("tick1"))

LiveSpec == InitLive /\ [][NextLive]_vars /\ Progress

(***************************************************************************)
(* The life of the Message collection: the server has started its          *)
(* scheduler, the operator created the scheduled group message at time 0   *)
(* and its date has come.  The operator creates further messages, asks for *)
(* a send, and edits or deletes the group while the send and the tick run. *)
(***************************************************************************)
InitLife ==
    /\ messages = << NewMessage(MessageRequests[1], 1, 0) >>
    /\ userGroups = [g \in {1} |-> Group("G", <<Member("alice")>>,
                                         [role |-> "moderator"], TRUE)]
    /\ adminUsers = Directory
    /\ activityLog = <<>>
    /\ transport = <<>>
    /\ now = 1
    /\ schedulerTimer = 1
    /\ intervals = {1}
    /\ sends = [p \in Procs |-> IdleSend]
    /\ ticks = [t \in TickProcs |-> IdleTick]
    /\ opSends = [p \in OpProcs |-> 0]
    /\ requests = [p \in OpProcs |-> IdleRequest]
    /\ faults = 0

NextLife ==
    \/ CreateMessage
    \/ UpdateGroup
    \/ DeleteGroup
    \/ SendRequest("op1")
    \/ \E p \in SpecProcs : Send(p)
    \/ Scheduler("tick1")

LifeSpec == InitLife /\ [][NextLife]_vars

(***************************************************************************)
(* One tick over two messages that are both due, with failing calls: the   *)
(* group message by e-mail, and either the in-app message or the e-mail    *)
(* message to a group that does not exist.                                 *)
(***************************************************************************)
InitTick ==
    /\ \E second \in {2, 3} :
          messages = << NewMessage(MessageRequests[1], 1, 0),
                        NewMessage(MessageRequests[second], 1, 0) >>
    /\ userGroups = [g \in {1} |-> Group("G", <<Member("alice")>>,
                                         [role |-> "moderator"], TRUE)]
    /\ adminUsers = Directory
    /\ activityLog = <<>>
    /\ transport = <<>>
    /\ now = 1
    /\ schedulerTimer = NoId
    /\ intervals = {}
    /\ sends = [p \in Procs |-> IdleSend]
    /\ ticks = [t \in TickProcs |-> IdleTick]
    /\ opSends = [p \in OpProcs |-> 0]
    /\ requests = [p \in OpProcs |-> IdleRequest]
    /\ faults = 0

NextTick ==
    \/ startScheduler
    \/ Scheduler("tick1")
    \/ TickFindFails("tick1")
    \/ Send("tick1")
    \/ Fails("tick1")

TickSpec == InitTick /\ [][NextTick]_vars

\* the same, with the runtime running every callback and continuation that is ready,
\* the catch block of the send among them; a rejection is never owed
TickLiveSpec ==
    InitTick /\ [][NextTick]_vars /\ Progress /\ WF_vars(LogSendError("tick1"))

(***************************************************************************)
(* Message creation on its own, through either of the two routers the      *)
(* repository holds, as time passes.                                       *)
(***************************************************************************)
InitCreate ==
    /\ messages = <<>>
    /\ Started

NextCreate ==
    \/ CreateMessage
    \/ CreateMessageAdmin
    \/ AdvanceClock

CreateSpec == InitCreate /\ [][NextCreate]_vars

(***************************************************************************)
(* Resolution under every order of its inputs: two messages with the same  *)
(* recipients in opposite orders, to two groups with the same members in   *)
(* opposite orders and the same filter, while the directory, queried       *)
(* without a sort, returns its documents in an order that may change.      *)
(***************************************************************************)
\* the orders in which the collection may return the directory documents
DirectoryOrders ==
    { [i \in DOMAIN Directory |-> Directory[order[i]]] :
          order \in { f \in [DOMAIN Directory -> DOMAIN Directory] :
                          \A i, j \in DOMAIN Directory : i # j => f[i] # f[j] } }

\* AdminUser.find(query, 'username') has no sort: the natural order changes
Reorder ==
    /\ adminUsers' \in DirectoryOrders \ {adminUsers}
    /\ UNCHANGED <<messages, userGroups, activityLog, transport, now, timer, sends, ticks,
                   opSends, faults, requests>>

InitOrder ==
    /\ messages = << NewMessage([channel |-> "email", targetGroupId |-> 1,
                                 recipients |-> <<"dave", "carol">>], NoDate, 0),
                     NewMessage([channel |-> "email", targetGroupId |-> 2,
                                 recipients |-> <<"carol", "dave">>], NoDate, 0) >>
    /\ userGroups = << Group("G1", <<Member("carol"), Member("erin")>>,
                             [isActive |-> "true"], TRUE),
                       Group("G2", <<Member("erin"), Member("carol")>>,
                             [isActive |-> "true"], TRUE) >>
    /\ adminUsers \in DirectoryOrders
    /\ activityLog = <<>>
    /\ transport = <<>>
    /\ now = 0
    /\ schedulerTimer = NoId
    /\ intervals = {}
    /\ sends = [p \in Procs |-> IdleSend]
    /\ ticks = [t \in TickProcs |-> IdleTick]
    /\ opSends = [p \in OpProcs |-> 0]
    /\ requests = [p \in OpProcs |-> IdleRequest]
    /\ faults = 0

\* each connection makes its send and keeps the result it was given
NextOrder ==
    \/ Reorder
    \/ \E p \in OpProcs :
          \/ SendRequest(p)
          \/ Send(p)

OrderSpec == InitOrder /\ [][NextOrder]_vars

(***************************************************************************)
(* The group routes on their own: the store holds group G with one member, *)
(* and two operator connections create groups and add and remove members.  *)
(***************************************************************************)
InitGroup ==
    /\ messages = <<>>
    /\ Started

NextGroup ==
    \E p \in OpProcs :
        \/ CreateGroupFind(p)
        \/ CreateGroupSave(p)
        \/ AddMemberFind(p)
        \/ AddMemberSave(p)
        \/ RemoveMemberFind(p)
        \/ RemoveMemberSave(p)
        \/ RemoveMemberConflict(p)

GroupSpec == InitGroup /\ [][NextGroup]_vars

(***************************************************************************)
(* Resolution for an active and an inactive group: two groups with the     *)
(* same members and filters, the second with isActive false, and one       *)
(* e-mail message to each.                                                 *)
(***************************************************************************)
InitActive ==
    /\ \E recipients \in RecipientLists :
          messages = [id \in {1, 2} |->
                         NewMessage([channel |-> "email", targetGroupId |-> id,
                                     recipients |-> recipients], NoDate, 0)]
    /\ \E members \in MemberLists,
          filters \in {NoFilters, [role |-> "moderator"], [isActive |-> "true"]} :
          userGroups = <<Group("G1", members, filters, TRUE),
                         Group("G2", members, filters, FALSE)>>
    /\ adminUsers = Directory
    /\ activityLog = <<>>
    /\ transport = <<>>
    /\ now = 0
    /\ schedulerTimer = NoId
    /\ intervals = {}
    /\ sends = [p \in Procs |-> IdleSend]
    /\ ticks = [t \in TickProcs |-> IdleTick]
    /\ opSends = [p \in OpProcs |-> 0]
    /\ requests = [p \in OpProcs |-> IdleRequest]
    /\ faults = 0

ActiveSpec == InitActive /\ [][NextFilter]_vars

(***************************************************************************)
(* Overlapping ticks: the interval is installed, a scheduled message is    *)
(* due, and the interval fires again whether or not the callback it        *)
(* started before has ended.                                               *)
(***************************************************************************)
NextOverlap ==
    \E t \in TickProcs :
        \/ Scheduler(t)
        \/ Send(t)

OverlapSpec == InitLife /\ [][NextOverlap]_vars

(***************************************************************************)
(* The scheduler started and stopped while two messages are due.           *)
(***************************************************************************)
NextStop ==
    \/ NextTick
    \/ stopScheduler

StopSpec == InitTick /\ [][NextStop]_vars

(***************************************************************************)
(* The member preview beside a send: one e-mail message to group G, whose  *)
(* members and filters are any of the lists and objects above, sent on one *)
(* connection while the other asks for the preview of the group.           *)
(***************************************************************************)
InitPreview ==
    /\ \E recipients \in RecipientLists :
          messages = << NewMessage([channel |-> "email", targetGroupId |-> 1,
                                    recipients |-> recipients], NoDate, 0) >>
    /\ \E members \in MemberLists \cup {<<Member("bob"), Member("alice"), Member("bob")>>},
          filters \in Filters :
          userGroups = [g \in {1} |-> Group("G", members, filters, TRUE)]
    /\ adminUsers = Directory
    /\ activityLog = <<>>
    /\ transport = <<>>
    /\ now = 0
    /\ schedulerTimer = NoId
    /\ intervals = {}
    /\ sends = [p \in Procs |-> IdleSend]
    /\ ticks = [t \in TickProcs |-> IdleTick]
    /\ opSends = [p \in OpProcs |-> 0]
    /\ requests = [p \in OpProcs |-> IdleRequest]
    /\ faults = 0

NextPreview ==
    \/ SendRequest("op1")
    \/ Send("op1")
    \/ Respond("op1")
    \/ PreviewFind("op2")
    \/ PreviewMatched("op2")
    \/ PreviewRespond("op2")

PreviewSpec == InitPreview /\ [][NextPreview]_vars

(***************************************************************************)
(* Group names: the store holds no group, group G, or groups G and H, and  *)
(* two operator connections create groups while groups are updated and     *)
(* time passes.                                                            *)
(***************************************************************************)
InitName ==
    /\ messages = <<>>
    /\ userGroups \in { <<>>,
                        <<Group("G", <<>>, NoFilters, TRUE)>>,
                        <<Group("G", <<>>, NoFilters, TRUE),
                          Group("H", <<>>, NoFilters, TRUE)>> }
    /\ adminUsers = Directory
    /\ activityLog = <<>>
    /\ transport = <<>>
    /\ now = 0
    /\ schedulerTimer = NoId
    /\ intervals = {}
    /\ sends = [p \in Procs |-> IdleSend]
    /\ ticks = [t \in TickProcs |-> IdleTick]
    /\ opSends = [p \in OpProcs |-> 0]
    /\ requests = [p \in OpProcs |-> IdleRequest]
    /\ faults = 0

NextName ==
    \/ \E p \in OpProcs : CreateGroupFind(p) \/ CreateGroupSave(p)
    \/ RenameGroup
    \/ UpdateGroup
    \/ AdvanceClock

NameSpec == InitName /\ [][NextName]_vars

(***************************************************************************)
(* Properties.                                                             *)
(***************************************************************************)
\* the send of process p takes a step
Steps(p) == sends'[p] # sends[p]

\* C1: a send of a message that was already sent or failed when the send loaded it
\* leaves its sentAt and deliveryReport as they are and makes no transport call.
C1_TerminalSendChangesNothing ==
    [][\A p \in Procs :
          (sends[p].status \in Terminal /\ Steps(p)) =>
              /\ messages'[sends[p].id].sentAt = messages[sends[p].id].sentAt
              /\ messages'[sends[p].id].deliveryReport = messages[sends[p].id].deliveryReport
              /\ transport' = transport]_vars

\* C2: of two interleaved sends of one message that both loaded it before it was
\* sent, the later one (it finds the message already sent or failed in the store)
\* makes no transport call and no second write of the message.
C2_LateSendDoesNotDispatch ==
    [][\A p \in Procs :
          (/\ sends[p].status \in {"draft", "scheduled"}
           /\ messages[sends[p].id].status \in Terminal
           /\ Steps(p)) =>
              /\ messages' = messages
              /\ transport' = transport]_vars

\* message id is scheduled and its date has come
IsDue(id) ==
    /\ messages[id].status = "scheduled"
    /\ messages[id].scheduledAt # NoDate
    /\ messages[id].scheduledAt <= now

\* C3: while the scheduler stays started, a scheduled message whose date has come is
\* eventually sent (every call of the send succeeding).
C3_DueMessageIsSent ==
    \A id \in MessageIds :
        (IsDue(id) /\ schedulerTimer # NoId)
            ~> (messages[id].status = "sent" \/ schedulerTimer = NoId)

\* a tick has sent a due message while the timer is still installed
C3_Witness ==
    /\ schedulerTimer # NoId
    /\ messages[1].status = "sent"
    /\ \E i \in DOMAIN activityLog :
          activityLog[i] = Log("system", "Send Message", 1, 3, "scheduler")

\* C4: the list a tick's query returns holds only messages that are scheduled with a
\* date at or before now, and the tick calls sendMessageById only for the message at
\* the head of what is left of that list.
C4_TickSendsOnlyDueScheduled ==
    [][\A t \in TickProcs :
          /\ (ticks[t].pc = "find" /\ ticks'[t].pc = "loop") =>
                 \A i \in DOMAIN ticks'[t].scheduled :
                     LET msg == messages[ticks'[t].scheduled[i]]
                     IN  /\ msg.status = "scheduled"
                         /\ msg.scheduledAt # NoDate
                         /\ msg.scheduledAt <= now
          /\ sends'[t].pc # "idle" =>
                 /\ ticks'[t].pc = "loop"
                 /\ sends'[t].id = Head(ticks'[t].scheduled)]_vars

\* a tick is sending the due message while the other message is a draft it left out
C4_Witness ==
    /\ ticks["tick1"].pc = "loop"
    /\ ticks["tick1"].scheduled = <<1>>
    /\ sends["tick1"].pc = "findGroup"
    /\ messages[2].status = "draft"

\* the send of process p has its final recipients list
HasResolved(p) ==
    \/ sends[p].pc \in {"findEmails", "sendEmail", "logSendError", "save", "logSend"}
    \/ sends[p].pc = "returned" /\ sends[p].result # NoCount

\* usernames of the manual members of a group
MemberNames(group) == {group.members[i].username : i \in DOMAIN group.members}

\* usernames of the directory users that have every allow-listed field the filters
\* name; none when the filters name no allow-listed field (no query is made then)
FilterMatches(group) ==
    LET fields == allowed \cap DOMAIN group.filters
    IN  IF fields = {} THEN {}
        ELSE {adminUsers[i].username :
                 i \in {j \in DOMAIN adminUsers :
                           \A k \in fields : adminUsers[j][k] = group.filters[k]}}

NoDuplicates(list) == Cardinality(Range(list)) = Len(list)

\* C5: for a message that targets an existing group, the resolved audience is the
\* union of the explicit recipients, the manual members and the directory users
\* matching every allow-listed filter field, each username once; a message sent
\* carries the size of that union.
C5_AudienceIsUnion ==
    \A p \in Procs :
        (HasResolved(p) /\ messages[sends[p].id].targetGroup \in DOMAIN userGroups) =>
            LET msg == messages[sends[p].id]
                group == userGroups[msg.targetGroup]
                audience == Range(msg.recipients) \cup MemberNames(group)
                                \cup FilterMatches(group)
            IN  /\ Range(sends[p].recipients) = audience
                /\ NoDuplicates(sends[p].recipients)
                /\ msg.status = "sent" =>
                       msg.deliveryReport.recipientsCount = Cardinality(audience)

\* explicit recipients, two members and one filter match resolved to three names
C5_Witness ==
    /\ sends["op1"].pc = "logSend"
    /\ sends["op1"].recipients = <<"dave", "alice", "bob">>
    /\ messages[1].recipients = <<"dave", "alice">>
    /\ Len(userGroups[1].members) = 2
    /\ userGroups[1].filters = [role |-> "moderator", isActive |-> "true"]
    /\ messages[1].deliveryReport.recipientsCount = 3

\* C6: for a message without a target group the resolved audience is exactly its
\* explicit recipients, each once, and neither the group nor the directory is
\* queried for filter matches.
C6_NoGroupAudienceIsRecipients ==
    \A p \in Procs :
        (sends[p].status # "" /\ messages[sends[p].id].targetGroup = NoId) =>
            /\ sends[p].pc \notin {"findGroup", "findMatched"}
            /\ HasResolved(p) =>
                   /\ Range(sends[p].recipients) = Range(messages[sends[p].id].recipients)
                   /\ NoDuplicates(sends[p].recipients)

\* a message without a group and with a repeated recipient resolved to one name
C6_Witness ==
    /\ sends["op1"].pc = "save"
    /\ messages[1].targetGroup = NoId
    /\ messages[1].recipients = <<"bob", "bob">>
    /\ sends["op1"].recipients = <<"bob">>

\* C7: two sends whose groups differ only in filter keys outside the allow-list
\* resolve the same audience, and the directory is queried only when the filters
\* name an allow-listed key.
C7_OtherFilterKeysHaveNoEffect ==
    /\ \A p, q \in Procs :
           (HasResolved(p) /\ HasResolved(q)) =>
               Range(sends[p].recipients) = Range(sends[q].recipients)
    /\ \A p \in Procs :
           sends[p].pc = "findMatched" =>
               allowed \cap DOMAIN userGroups[sends[p].targetGroup].filters # {}

\* two sends have resolved: one for a group without filters, one for a group whose
\* filters hold only a key outside the allow-list
C7_Witness ==
    /\ sends["op1"].pc = "save" /\ sends["op1"].id = 1
    /\ sends["op2"].pc = "save" /\ sends["op2"].id = 2
    /\ DOMAIN userGroups[1].filters = {}
    /\ DOMAIN userGroups[2].filters = {"department"}

\* the ActivityLog holds a record of this action by this actor for message id
Logged(user, action, id) ==
    \E i \in DOMAIN activityLog :
        /\ activityLog[i].user = user
        /\ activityLog[i].action = action
        /\ activityLog[i].id = id

\* C8: a throwing transport call never rejects the send.  The send goes on: it
\* records 'Send Message Error' and, unless a later store or audit call fails,
\* ends with the message sent, recipientsCount the size of the resolved audience,
\* and 'Send Message' recorded as well.
C8_TransportFailureStillSends ==
    \A p \in Procs :
        /\ sends[p].thrown # "sendEmail"
        /\ sends[p].caught = "sendEmail" =>
            LET s == sends[p] IN
            /\ s.pc \in {"logSendError", "save", "logSend", "returned"}
            /\ s.pc \in {"save", "logSend"} => Logged(s.actor, "Send Message Error", s.id)
            /\ (s.pc = "returned" /\ s.thrown = "") =>
                   /\ messages[s.id].status = "sent"
                   /\ messages[s.id].deliveryReport.recipientsCount = Len(s.recipients)
                   /\ s.result = Len(s.recipients)
                   /\ Logged(s.actor, "Send Message Error", s.id)
                   /\ Logged(s.actor, "Send Message", s.id)

\* a send whose transport call threw has returned the count, the message is sent
C8_Witness ==
    \E p \in Procs :
        /\ sends[p].caught = "sendEmail"
        /\ sends[p].pc = "returned"
        /\ sends[p].result = 3
        /\ messages[sends[p].id].status = "sent"
        /\ \E i \in DOMAIN transport : ~transport[i].ok

\* C9: once a send has ended because the directory query of the audience
\* computation failed, the message is marked failed and an audit record of the
\* failure exists.
C9_ResolutionFailureMarksFailed ==
    \A p \in Procs :
        (sends[p].pc = "returned" /\ sends[p].thrown = "findMatched") =>
            /\ messages[sends[p].id].status = "failed"
            /\ \E i \in DOMAIN activityLog : activityLog[i].id = sends[p].id

\* the audience of message id as the stores define it
Audience(id) ==
    LET msg == messages[id]
    IN  IF msg.targetGroup \in DOMAIN userGroups
        THEN Range(msg.recipients) \cup MemberNames(userGroups[msg.targetGroup])
                 \cup FilterMatches(userGroups[msg.targetGroup])
        ELSE Range(msg.recipients)

\* C10: a send whose directory query failed ends as a failure without a result, and
\* every message that is sent carries the size of its whole audience, filter matches
\* included.
C10_DirectoryFailurePropagates ==
    /\ \A p \in Procs :
           sends[p].thrown = "findMatched" =>
               /\ sends[p].pc = "returned"
               /\ sends[p].result = NoCount
    /\ \A p \in Procs :
           HasResolved(p) => Range(sends[p].recipients) = Audience(sends[p].id)
    /\ \A id \in DOMAIN messages :
           messages[id].status = "sent" =>
               messages[id].deliveryReport.recipientsCount = Cardinality(Audience(id))

\* a send has ended on a failed directory query and its message is not sent
C10_Witness ==
    \E p \in Procs :
        /\ sends[p].pc = "returned"
        /\ sends[p].thrown = "findMatched"
        /\ messages[sends[p].id].status # "sent"

\* C11: a stored message has its sentAt set exactly when its status is sent or
\* failed.
C11_SentAtIffTerminal ==
    \A id \in DOMAIN messages :
        (messages[id].sentAt # NoDate) <=> (messages[id].status \in Terminal)

\* one message is sent with its date stamped, next to a created draft without one
C11_Witness ==
    /\ 2 \in DOMAIN messages
    /\ messages[1].status = "sent" /\ messages[1].sentAt = 1
    /\ messages[2].status = "draft" /\ messages[2].sentAt = NoDate

\* C12: a message that is sent or failed stays stored and stays sent or failed in
\* every step, whichever of the operator's requests, the sends or the ticks takes it.
C12_TerminalStatusIsKept ==
    [][\A id \in DOMAIN messages :
          messages[id].status \in Terminal =>
              /\ id \in DOMAIN messages'
              /\ messages'[id].status \in Terminal]_vars

\* after message 1 was sent the operator created a message and edited the group,
\* and message 1 is still sent
C12_Witness ==
    /\ messages[1].status = "sent"
    /\ \E i, j, k \in DOMAIN activityLog :
          /\ i < j /\ i < k
          /\ activityLog[i].action = "Send Message" /\ activityLog[i].id = 1
          /\ activityLog[j].action = "Create Message"
          /\ activityLog[k].action \in {"Update Group", "Delete Group"}

\* C13: when a send called by a tick has ended, by returning or by throwing, the
\* tick goes on to the next message of the list its query returned, and ends only
\* when the list is used up; a send that throws changes nothing of the tick.
C13_TickSkipsFailedSend ==
    [][\A t \in TickProcs :
          /\ (ticks[t].pc = "loop" /\ sends[t].pc = "returned" /\ ticks'[t] # ticks[t]) =>
                 LET rest == Tail(ticks[t].scheduled)
                 IN  IF rest = <<>>
                     THEN ticks'[t].pc = "idle"
                     ELSE /\ ticks'[t].pc = "loop"
                          /\ ticks'[t].scheduled = rest
                          /\ sends'[t].pc = "findMessage"
                          /\ sends'[t].id = Head(rest)
          /\ (sends[t].thrown = "" /\ sends'[t].thrown # "") => ticks'[t] = ticks[t]]_vars

\* the send of the first due message threw, and the same tick is sending the second
C13_Witness ==
    /\ faults = 1
    /\ messages[1].status = "scheduled"
    /\ ticks["tick1"].pc = "loop"
    /\ ticks["tick1"].scheduled = <<2>>
    /\ sends["tick1"].id = 2
    /\ sends["tick1"].pc = "save"

\* C14: the runtime holds at most one interval, and it is the one schedulerTimer
\* names: none when the scheduler is stopped.
C14_AtMostOneInterval ==
    /\ Cardinality(intervals) <= 1
    /\ intervals = IF schedulerTimer = NoId THEN {} ELSE {schedulerTimer}

\* startScheduler was called while the first interval was running: the second handle
\* is the only interval left
C14_Witness ==
    /\ schedulerTimer = 2
    /\ intervals = {2}

\* the non-empty e-mail addresses of the directory users with these usernames
AddressesOf(names) ==
    {adminUsers[i].email :
        i \in {j \in DOMAIN adminUsers :
                  adminUsers[j].username \in names /\ adminUsers[j].email # ""}}

\* C15: a send makes at most one transport call; the address list of a call is
\* exactly the non-empty addresses of the directory users in the resolved audience
\* of its message, each once; and a send of an e-mail message whose audience has
\* such an address has made its call before it saves the message.
C15_EmailToAudienceAddresses ==
    /\ Len(transport) <= opSends["op1"]
    /\ \A i \in DOMAIN transport :
           /\ transport[i].to # <<>>
           /\ NoDuplicates(transport[i].to)
           /\ Range(transport[i].to) = AddressesOf(Audience(transport[i].id))
    /\ \A p \in Procs :
           (/\ sends[p].channel = "email"
            /\ sends[p].pc \in {"save", "logSend", "returned"}
            /\ AddressesOf(Audience(sends[p].id)) # {}) =>
               \E i \in DOMAIN transport : transport[i].id = sends[p].id

\* the audience holds alice and bob, bob has no address: one call, to alice alone
C15_Witness ==
    /\ sends["op1"].pc = "logSend"
    /\ Range(sends["op1"].recipients) = {"alice", "bob"}
    /\ transport = << [id |-> 1, to |-> <<"alice@x">>, ok |-> TRUE] >>

\* C16: the save of a send marks the message sent and stores as recipientsCount the
\* number of distinct usernames of the audience the send resolved, whatever the
\* channel, the addresses found and the outcome of the transport call; nothing else
\* changes a deliveryReport; and the count a send returns is the number it saved.
C16_CountIsAudienceSize ==
    [][/\ \A p \in Procs :
             /\ (sends[p].pc = "save" /\ sends'[p].pc = "logSend") =>
                    /\ messages'[sends[p].id].status = "sent"
                    /\ messages'[sends[p].id].deliveryReport.recipientsCount
                           = Cardinality(Range(sends[p].recipients))
                    /\ Range(sends[p].recipients) = Audience(sends[p].id)
             /\ sends'[p].result # sends[p].result =>
                    \/ sends'[p].result = NoCount
                    \/ sends'[p].result = Cardinality(Range(sends[p].recipients))
       /\ \A id \in DOMAIN messages :
             messages'[id].deliveryReport # messages[id].deliveryReport =>
                 \E p \in Procs : /\ sends[p].id = id
                                  /\ sends[p].pc = "save"
                                  /\ sends'[p].pc = "logSend"]_vars

\* both messages are sent: the e-mail message with three names and one address,
\* the in-app message with one name; the tick's send has returned the count
C16_Witness ==
    /\ messages[1].status = "sent" /\ messages[1].deliveryReport.recipientsCount = 3
    /\ messages[2].status = "sent" /\ messages[2].deliveryReport.recipientsCount = 1
    /\ \E i \in DOMAIN transport : transport[i].to = <<"alice@x">>
    /\ sends["tick1"].pc = "returned" /\ sends["tick1"].result = 3

\* C17: a send during which an audit write failed, the 'Send Message' record or the
\* 'Send Message Error' record, has still returned the recipient count and its
\* message is sent.
C17_AuditFailureDoesNotFailSend ==
    \A p \in Procs :
        (sends[p].pc = "returned" /\ sends[p].thrown \in {"logSend", "logSendError"}) =>
            /\ sends[p].result = Len(sends[p].recipients)
            /\ messages[sends[p].id].status = "sent"

\* C18: a send of an id that no stored message has ends at its lookup, unless the
\* lookup itself fails, with null for a result; the step writes no audit record,
\* calls no transport and changes no message, and the route then answers without
\* any of these either.
C18_MissingMessageIsNotFound ==
    [][\A p \in Procs :
          (sends[p].pc # "idle" /\ sends[p].id \notin DOMAIN messages /\ Steps(p)) =>
              /\ messages' = messages
              /\ activityLog' = activityLog
              /\ transport' = transport
              /\ \/ sends[p].pc = "findMessage" /\ sends'[p].pc = "returned"
                 \/ sends[p].pc = "returned" /\ sends'[p].pc = "idle"
              /\ sends'[p].result = NoCount
              /\ sends'[p].thrown = "" \/ faults' # faults]_vars

\* the operator's send of an unknown id has returned null and nothing was recorded
C18_Witness ==
    /\ sends["op1"].pc = "returned"
    /\ sends["op1"].id = MissingMessageId
    /\ sends["op1"].result = NoCount
    /\ sends["op1"].thrown = ""
    /\ activityLog = <<>>
    /\ transport = <<>>

\* message id refers to a group that is not stored
Dangling(id) ==
    /\ messages[id].targetGroup # NoId
    /\ messages[id].targetGroup \notin DOMAIN userGroups

\* C19: a send of a message whose target group does not exist is never rejected; the
\* audience it resolves is the explicit recipients, each once, and once it has saved
\* the message, the message is sent with the number of those recipients.
C19_MissingGroupIsNoError ==
    \A p \in Procs :
        (sends[p].status # "" /\ Dangling(sends[p].id)) =>
            LET msg == messages[sends[p].id] IN
            /\ sends[p].thrown = ""
            /\ HasResolved(p) =>
                   /\ Range(sends[p].recipients) = Range(msg.recipients)
                   /\ NoDuplicates(sends[p].recipients)
            /\ sends[p].pc \in {"logSend", "returned"} =>
                   /\ msg.status = "sent"
                   /\ msg.deliveryReport.recipientsCount = Cardinality(Range(msg.recipients))

\* the message names group 2, which is not stored: it was sent to its one recipient
C19_Witness ==
    /\ messages[1].targetGroup = 2
    /\ 2 \notin DOMAIN userGroups
    /\ messages[1].recipients = <<"bob", "bob">>
    /\ messages[1].status = "sent"
    /\ messages[1].deliveryReport.recipientsCount = 1
    /\ sends["op1"].pc = "returned" /\ sends["op1"].result = 1

\* C20: a send of an in-app or sms message never is at the directory lookup of the
\* addresses, at the transport call or at its error record; once it has saved, the
\* message is sent with the size of the audience; and every transport call made is
\* for an e-mail message.
C20_OtherChannelsSkipEmail ==
    /\ \A p \in Procs :
           sends[p].channel \in {"in-app", "sms"} =>
               /\ sends[p].pc \notin {"findEmails", "sendEmail", "logSendError"}
               /\ sends[p].emails = <<>>
               /\ sends[p].caught = ""
               /\ sends[p].pc \in {"logSend", "returned"} =>
                      /\ messages[sends[p].id].status = "sent"
                      /\ messages[sends[p].id].deliveryReport.recipientsCount
                             = Len(sends[p].recipients)
    /\ \A i \in DOMAIN transport : messages[transport[i].id].channel = "email"

\* an sms message whose audience holds a user with an address was sent without any
\* transport call
C20_Witness ==
    /\ messages[1].channel = "sms"
    /\ messages[1].status = "sent"
    /\ sends["op1"].pc = "returned"
    /\ "alice" \in Range(sends["op1"].recipients)
    /\ messages[1].deliveryReport.recipientsCount = Len(sends["op1"].recipients)
    /\ transport = <<>>

\* C21: a message enters the store as scheduled when it has a scheduledAt later than
\* the time of its creation, and as a draft otherwise.
C21_InitialStatus ==
    [][\A id \in DOMAIN messages' \ DOMAIN messages :
          LET msg == messages'[id]
          IN  msg.status = IF msg.scheduledAt # NoDate /\ msg.scheduledAt > now
                           THEN "scheduled" ELSE "draft"]_vars

\* C22: once a send whose transport call failed has saved its message, the stored
\* deliveryReport is not the one a send with a successful call stores for the same
\* audience.
C22_ReportRecordsTransportFailure ==
    \A p \in Procs :
        (sends[p].caught = "sendEmail" /\ sends[p].pc = "logSend") =>
            messages[sends[p].id].deliveryReport
                # [recipientsCount |-> Cardinality(Audience(sends[p].id))]

\* C23: any two resolutions, of the same message or of the message with the same
\* inputs in another order, whatever the order the directory returns its documents
\* in, give the same set of usernames, the same number of them, and the same stored
\* recipientsCount.
C23_ResolutionIgnoresOrder ==
    /\ \A p, q \in Procs :
           (HasResolved(p) /\ HasResolved(q)) =>
               /\ Range(sends[p].recipients) = Range(sends[q].recipients)
               /\ Len(sends[p].recipients) = Len(sends[q].recipients)
    /\ \A id, other \in DOMAIN messages :
           (messages[id].status = "sent" /\ messages[other].status = "sent") =>
               messages[id].deliveryReport = messages[other].deliveryReport

\* two sends of message 1 have resolved the same names in different orders
C23_Witness ==
    /\ sends["op1"].id = 1 /\ sends["op1"].pc = "save"
    /\ sends["op2"].id = 1 /\ sends["op2"].pc = "save"
    /\ sends["op1"].recipients # sends["op2"].recipients
    /\ Range(sends["op1"].recipients) = {"dave", "carol", "erin", "alice", "bob"}

\* C24: no group holds two members with one username.
C24_MembersAreDistinct ==
    \A g \in DOMAIN userGroups : NoDuplicates(Usernames(userGroups[g].members))

\* the 'Send Message' records of a log
SendRecords(log) == {i \in DOMAIN log : log[i].action = "Send Message"}

\* C25: the step in which a send returns its result appends exactly one
\* 'Send Message' record, carrying the actor, the count returned and the ip the send
\* was called with; a send of the scheduler has actor 'system'; and no other step
\* adds or removes a 'Send Message' record.
C25_OneSendRecordPerSend ==
    [][/\ \A p \in Procs :
             (sends[p].result = NoCount /\ sends'[p].result # NoCount) =>
                 /\ activityLog' = Append(activityLog,
                                       Log(sends[p].actor, "Send Message", sends[p].id,
                                           sends'[p].result, sends[p].ip))
                 /\ sends'[p].result = Cardinality(Range(sends[p].recipients))
                 /\ p \in TickProcs => sends[p].actor = "system"
       /\ SendRecords(activityLog') # SendRecords(activityLog) =>
             /\ Cardinality(SendRecords(activityLog')) = Cardinality(SendRecords(activityLog)) + 1
             /\ \E p \in Procs : sends[p].result = NoCount /\ sends'[p].result # NoCount
      ]_vars

\* a send of the scheduler and a send of the operator have both returned their
\* result, each with its one record
C25_Witness ==
    /\ sends["tick1"].result # NoCount
    /\ Cardinality({i \in SendRecords(activityLog) : activityLog[i].user = "system"}) = 1
    /\ Cardinality({i \in SendRecords(activityLog) : activityLog[i].user = "admin"}) = 1

\* C26: a rejected call in a tick, the query or a call of a send, leaves the timer
\* as it is: once installed the interval stays installed, and every message that
\* is due, also after such rejections, is eventually sent by a tick.
C26_FailedTickKeepsTimer ==
    /\ [][/\ faults' # faults => timer' = timer
          /\ schedulerTimer # NoId => (schedulerTimer' # NoId /\ schedulerTimer' \in intervals')
         ]_vars
    /\ \A id \in MessageIds :
           (IsDue(id) /\ schedulerTimer # NoId) ~> messages[id].status = "sent"

\* the send of message 1 was rejected in one tick, which went on to send message 2;
\* a later tick has sent message 1
C26_Witness ==
    /\ faults > 0
    /\ schedulerTimer \in intervals
    /\ messages[1].status = "sent"
    /\ \E i, j \in SendRecords(activityLog) :
           i < j /\ activityLog[i].id = 2 /\ activityLog[j].id = 1

\* C27: isActive of the group plays no part in resolution.  Sends for two groups
\* that differ only in isActive resolve the same audience, and the audience of a
\* message to an inactive group is its recipients, the members of the group and the
\* users its filters match; it is the count the sent message reports.
C27_InactiveGroupResolvesAlike ==
    /\ \A p, q \in Procs :
           (HasResolved(p) /\ HasResolved(q)) =>
               Range(sends[p].recipients) = Range(sends[q].recipients)
    /\ \A p \in Procs :
           (HasResolved(p) /\ ~userGroups[messages[sends[p].id].targetGroup].isActive) =>
               Range(sends[p].recipients) = Audience(sends[p].id)
    /\ \A id \in DOMAIN messages :
           messages[id].status = "sent" =>
               messages[id].deliveryReport = [recipientsCount |-> Cardinality(Audience(id))]

\* a send for the active and a send for the inactive group have both resolved, with
\* a member and a filter match that the recipients of the message do not name
C27_Witness ==
    /\ sends["op1"].id = 1 /\ HasResolved("op1")
    /\ sends["op2"].id = 2 /\ HasResolved("op2")
    /\ ~userGroups[2].isActive
    /\ MemberNames(userGroups[2]) \ Range(messages[2].recipients) # {}
    /\ FilterMatches(userGroups[2])
           \ (MemberNames(userGroups[2]) \cup Range(messages[2].recipients)) # {}

C29_SlowTransportDoesNotBlockTick ==
    \A t \in TickProcs :
        (intervals # {} /\ sends[t].pc = "sendEmail") =>
            \A next \in TickProcs : FreeTick(next) => ENABLED Tick(next)

\* the transport call of the first tick is still in flight and the second tick has
\* begun and is sending the same message
C29_Witness ==
    /\ sends["tick1"].pc = "sendEmail"
    /\ ticks["tick2"].pc = "loop"
    /\ sends["tick2"].id = sends["tick1"].id
    /\ sends["tick2"].pc \notin {"idle", "returned"}

\* a send that loaded its message and has not stored it: it is at an await before or
\* at msg.save(), or it was rejected there
BeforePersist(p) ==
    \/ sends[p].pc \in {"findGroup", "findMatched", "findEmails", "sendEmail",
                        "logSendError", "save"}
    \/ sends[p].pc = "returned" /\ sends[p].thrown \in Uncaught \ {"findMessage", "logSend"}

\* C30: the one write of a send is its msg.save().  The store changes only in the
\* step in which a send passes its save, and then only in the message of that send;
\* a step that rejects the send writes nothing; and as long as the send of a
\* scheduled message has not passed its save, wherever it stands or was rejected,
\* the stored message is scheduled with no sentAt and no report, and the query of a
\* tick selects it.
C30_OneWriteAtPersist ==
    /\ [][/\ messages' # messages =>
                \E p \in Procs :
                    /\ sends[p].pc = "save" /\ sends'[p].pc = "logSend"
                    /\ \A id \in DOMAIN messages \ {sends[p].id} : messages'[id] = messages[id]
          /\ \A p \in Procs :
                (sends[p].thrown = "" /\ sends'[p].thrown # "") => messages' = messages
         ]_vars
    /\ [](\A p \in TickProcs :
             (BeforePersist(p) /\ sends[p].status = "scheduled") =>
                 LET msg == messages[sends[p].id]
                 IN  /\ msg.status = "scheduled"
                     /\ msg.sentAt = NoDate
                     /\ msg.deliveryReport = [recipientsCount |-> NoCount]
                     /\ sends[p].id \in Range(Due(DOMAIN messages, now)))

\* the send of message 1 was rejected before its save in a tick that then sent
\* message 2; message 1 is still scheduled and a later tick has selected it again
C30_Witness ==
    /\ faults > 0
    /\ messages[2].status = "sent"
    /\ messages[1].status = "scheduled"
    /\ ticks["tick1"].pc = "loop"
    /\ ticks["tick1"].scheduled = <<1>>
    /\ sends["tick1"].id = 1
    /\ sends["tick1"].pc = "save"

\* C31: two ticks never dispatch the same message: a message that one tick has
\* selected and not yet stored as sent is not sent again by a tick that fires
\* meanwhile, so the relay is called at most once for a message.
C31_TicksNeverShareMessage ==
    \A id \in DOMAIN messages :
        Cardinality({i \in DOMAIN transport : transport[i].id = id}) <= 1

\* C32: while the scheduler is stopped no tick enters sendMessageById, also not a
\* tick that was in flight when the scheduler was stopped.
C32_StoppedSchedulerSendsNothing ==
    [][schedulerTimer = NoId =>
          \A t \in TickProcs :
              sends'[t].pc = "findMessage" => sends'[t] = sends[t]]_vars

\* C33: the query of a tick never returns a message whose stored status is sent, and
\* a tick enters sendMessageById only for a message its own query returned: a
\* message the operator has sent early is left out by every query that runs after
\* its save, also once its date has come.
C33_SentEarlyIsNotDispatched ==
    [][\A t \in TickProcs :
          /\ (ticks[t].pc = "find" /\ ticks'[t].pc = "loop") =>
                 \A id \in Range(ticks'[t].scheduled) : messages[id].status # "sent"
          /\ (sends'[t].pc = "findMessage" /\ sends'[t] # sends[t]) =>
                 sends'[t].id \in Range(ticks'[t].scheduled)]_vars

\* the operator sent the scheduled message before its date; the date has come and
\* the query of a tick is running
C33_Witness ==
    /\ messages[1].status = "sent"
    /\ messages[1].sentAt < messages[1].scheduledAt
    /\ Logged("admin", "Send Message", 1)
    /\ ticks["tick1"].pc = "find"
    /\ ticks["tick1"].now >= messages[1].scheduledAt

\* C34: every 'Send Message' record of the ActivityLog is about a stored message
\* whose status is sent.
C34_SendRecordMeansSent ==
    \A i \in SendRecords(activityLog) :
        /\ activityLog[i].id \in DOMAIN messages
        /\ messages[activityLog[i].id].status = "sent"

\* the log holds the 'Send Message' record of the in-app draft, which is sent, while
\* the message to the group, whose send was rejected, has no such record
C34_Witness ==
    /\ \E i \in SendRecords(activityLog) : activityLog[i].id = 2
    /\ messages[2].status = "sent"
    /\ messages[1].status # "sent"
    /\ \E p \in Procs : sends[p].id = 1 /\ sends[p].thrown # ""

\* C35: a send of an e-mail message whose resolved audience holds no directory user
\* with an address (an empty audience included) never is at the transport call or at
\* the error record; no transport call and no 'Send Message Error' record exists for
\* its message; and once it has saved, the message is sent with the size of the
\* audience.
C35_NoAddressNoTransport ==
    \A p \in Procs :
        (/\ sends[p].channel = "email"
         /\ HasResolved(p)
         /\ AddressesOf(Range(sends[p].recipients)) = {}) =>
            /\ sends[p].pc \notin {"sendEmail", "logSendError"}
            /\ sends[p].emails = <<>>
            /\ sends[p].caught = ""
            /\ \A i \in DOMAIN transport : transport[i].id # sends[p].id
            /\ ~Logged(sends[p].actor, "Send Message Error", sends[p].id)
            /\ sends[p].pc \in {"logSend", "returned"} =>
                   /\ messages[sends[p].id].status = "sent"
                   /\ messages[sends[p].id].deliveryReport
                          = [recipientsCount |-> Cardinality(Audience(sends[p].id))]

\* an e-mail message whose audience is bob alone, who has no address, was sent with
\* count 1 and without a transport call
C35_Witness ==
    /\ sends["op1"].pc = "returned"
    /\ sends["op1"].channel = "email"
    /\ sends["op1"].recipients = <<"bob">>
    /\ sends["op1"].result = 1
    /\ messages[sends["op1"].id].status = "sent"
    /\ transport = <<>>
    /\ activityLog = <<Log("admin", "Send Message", sends["op1"].id, 1, "client")>>

\* C36: the list the member preview answers with is what the group adds to the
\* audience of a send on the same store: the audience is the recipients of the
\* message together with the previewed list, the very list when the message names
\* no recipients; and the previewed list is the members and the users the
\* allow-listed filters match, each once.
C36_PreviewIsGroupAudience ==
    \A q \in OpProcs :
        requests[q].pc = "previewed" =>
            LET group == userGroups[requests[q].id]
                preview == requests[q].recipients
            IN  /\ NoDuplicates(preview)
                /\ Range(preview) = MemberNames(group) \cup FilterMatches(group)
                /\ \A p \in Procs :
                       (HasResolved(p) /\ messages[sends[p].id].targetGroup = requests[q].id) =>
                           /\ Range(sends[p].recipients)
                                  = Range(messages[sends[p].id].recipients) \cup Range(preview)
                           /\ messages[sends[p].id].recipients = <<>> =>
                                  sends[p].recipients = preview

\* a send of a message without recipients has resolved and the preview of its group
\* has answered: both hold the member and the user the filters match
C36_Witness ==
    /\ HasResolved("op1")
    /\ messages[sends["op1"].id].recipients = <<>>
    /\ requests["op2"].pc = "previewed"
    /\ MemberNames(userGroups[1]) # {}
    /\ FilterMatches(userGroups[1]) \ MemberNames(userGroups[1]) # {}
    /\ Len(requests["op2"].recipients) < Len(userGroups[1].members) + Len(adminUsers)

\* C37: no two groups of the store have the same name.
C37_GroupNamesAreUnique ==
    \A g, h \in DOMAIN userGroups : g # h => userGroups[g].name # userGroups[h].name

\* two creations of a group named H both found the name free; one has saved its
\* group and the save of the other is still to come
C37_Witness ==
    /\ \E g \in DOMAIN userGroups : userGroups[g].name = "H"
    /\ \E p \in OpProcs : requests[p].pc = "createSave" /\ requests[p].name = "H"
    /\ \E i \in DOMAIN activityLog : activityLog[i].action = "Create Group"

====
